---- MODULE Spec2Model ----
(***************************************************************************)
(* PostgresqlWriter (package writer): the buffered asynchronous log sink.  *)
(* The model follows src/utils.go: construction (Ping, ensureTable, start  *)
(* of flushLoop), AddEntry, Flush / flushLocked, the timer-driven          *)
(* flushLoop, the writeEntries goroutine spawned per drained batch, and    *)
(* Close.  A log record is an opaque identifier; the backend (DBExecutor)  *)
(* is an external collaborator whose Ping / Exec / Close calls succeed or  *)
(* fail nondeterministically.  SpecWrite follows one writeEntries run call *)
(* by call, SpecCfg starts from configurations with unset fields, and      *)
(* SpecLog follows Log building a LogEntry from its fields (extractFields, *)
(* toInt64, convertLogFields) with 64-bit values held exactly.  SpecLive  *)
(* is the writer left to its timer, under fair scheduling.                 *)
(***************************************************************************)
EXTENDS Integers, Sequences, FiniteSets, TLC

\* ---------------------------------------------------------------- bounds
MaxRecords == 3        \* AddEntry calls in one behaviour
SmallBufferSize == 2   \* BufferSize of the explicit configuration
MaxBatch == 3          \* records of the batch handed to writeEntries in SpecWrite
SmallFlushInterval == 1   \* FlushInterval of the explicit configuration, seconds
MaxFields == 2         \* fields of the Log call in SpecLog

\* ------------------------------------------------------ program constants
DefaultBufferSize == 100      \* DefaultPostgresConfig().BufferSize
DefaultFlushInterval == 5     \* DefaultPostgresConfig().FlushInterval, seconds
NumIndexes == 5               \* index statements of ensureTable

Producers == {"p1", "p2"}
Closers == {"c1"}
User == "user"
Loop == "loop"
Threads == Producers \cup Closers \cup {User, Loop}
Goroutine == "go"
NoOwner == "none"

VARIABLES
  ctorPc,        \* NewPostgresqlWriter: "start","ping","ensure","spawn","returned","failed"
  ctorErr,       \* error returned by NewPostgresqlWriter ("nil" while none)
  dbArg,         \* the db argument: "nil" or "db"
  config,        \* the config argument
  stmts,         \* provisioning statements ensureTable has got through
  backendFailed, \* the backend reported a failure to NewPostgresqlWriter
  bufferSize,    \* w.bufferSize
  flushInterval, \* w.flushInterval
  buffer,        \* w.buffer
  backing,       \* the cells written so far of the array behind w.buffer
  bufferMux,     \* w.bufferMux: the thread that holds it, or NoOwner
  done,          \* w.done: "open" or "closed"
  wg,            \* w.wg counter
  pc,            \* position of every thread
  tickPending,   \* a tick waits in ticker.C
  batches,       \* one writeEntries goroutine per drained batch
  dbReleased,    \* number of db.Close() calls
  closeRet,      \* what Close returned to each closer
  dbCloseRes,    \* what the last db.Close() call returned, "none" before
  crashed,       \* the process died of an unrecovered panic
  job,           \* one writeEntries run observed call by call (SpecWrite)
  logFields,     \* the fields argument of a Log call (SpecLog)
  built,         \* <<the LogEntry that Log built from it>>, <<>> before (SpecLog)
  \* history
  appended,      \* records in the order they were appended to w.buffer
  nextId,        \* next fresh record
  ticked,        \* the ticker has delivered a tick
  flushCalled,   \* w.Flush() has been called (by the application or flushLoop)
  lateAppend     \* an AddEntry call overlapped or followed a Close call

vars == <<ctorPc, ctorErr, dbArg, config, stmts, backendFailed, bufferSize,
          flushInterval, buffer, backing, bufferMux, done, wg, pc,
          tickPending, batches, dbReleased, closeRet, dbCloseRes, crashed,
          job, logFields, built, appended, nextId, ticked, flushCalled,
          lateAppend>>

logVars == <<logFields, built>>
ctorVars == <<ctorPc, ctorErr, dbArg, config, stmts, backendFailed, bufferSize,
             flushInterval>>
histVars == <<ticked, flushCalled, lateAppend>>

\* ------------------------------------------------------------ configuration
NilConfig == [isNil |-> TRUE, BufferSize |-> 0, FlushInterval |-> 0]

DefaultPostgresConfig ==
  [isNil |-> FALSE, BufferSize |-> DefaultBufferSize,
   FlushInterval |-> DefaultFlushInterval]

Configs ==
  {NilConfig,
   [isNil |-> FALSE, BufferSize |-> SmallBufferSize,
    FlushInterval |-> SmallFlushInterval]}

\* config == nil  =>  config = DefaultPostgresConfig()
EffectiveConfig(c) == IF c.isNil THEN DefaultPostgresConfig ELSE c

\* no writeEntries run is under observation
NoJob == [entries |-> <<>>, st |-> "none", expired |-> FALSE, calls |-> <<>>]

Init ==
  /\ ctorPc = "start"
  /\ ctorErr = "nil"
  /\ dbArg \in {"nil", "db"}
  /\ config \in Configs
  /\ stmts = 0
  /\ backendFailed = FALSE
  /\ bufferSize = 0
  /\ flushInterval = 0
  /\ buffer = <<>>
  /\ backing = <<>>
  /\ bufferMux = NoOwner
  /\ done = "open"
  /\ wg = 0
  /\ pc = [t \in Threads |-> IF t = Loop THEN "off" ELSE "idle"]
  /\ tickPending = FALSE
  /\ batches = <<>>
  /\ dbReleased = 0
  /\ closeRet = [c \in Closers |-> "none"]
  /\ dbCloseRes = "none"
  /\ crashed = FALSE
  /\ logFields = <<>>
  /\ built = <<>>
  /\ job = NoJob
  /\ appended = <<>>
  /\ nextId = 1
  /\ ticked = FALSE
  /\ flushCalled = FALSE
  /\ lateAppend = FALSE

\* ------------------------------------------------------------- construction
writerVars == <<buffer, backing, bufferMux, done, tickPending, batches,
                dbReleased, closeRet, dbCloseRes, crashed, job, logFields,
                built, appended, nextId>>

\* if db == nil { return nil, error }; config defaulting
CtorCheckArgs ==
  /\ ctorPc = "start"
  /\ IF dbArg = "nil"
       THEN /\ ctorPc' = "failed"
            /\ ctorErr' = "db executor is required"
            /\ UNCHANGED config
       ELSE /\ ctorPc' = "ping"
            /\ ctorErr' = ctorErr
            /\ config' = EffectiveConfig(config)
  /\ UNCHANGED <<dbArg, stmts, backendFailed, bufferSize, flushInterval, wg, pc>>
  /\ UNCHANGED writerVars
  /\ UNCHANGED histVars

\* db.Ping; on success the writer struct is filled in
CtorPing ==
  /\ ctorPc = "ping"
  /\ \E ok \in BOOLEAN :
       /\ backendFailed' = ~ok
       /\ IF ok
            THEN /\ ctorPc' = "ensure"
                 /\ ctorErr' = ctorErr
                 /\ bufferSize' = config.BufferSize
                 /\ flushInterval' = config.FlushInterval
            ELSE /\ ctorPc' = "failed"
                 /\ ctorErr' = "failed to ping database"
                 /\ UNCHANGED <<bufferSize, flushInterval>>
  /\ UNCHANGED <<dbArg, config, stmts, wg, pc>>
  /\ UNCHANGED writerVars
  /\ UNCHANGED histVars

\* ensureTable: if err := w.db.Exec(ctx, ...); err != nil { return err },
\* for the n-th statement (table first, then the indexes)
EnsureAbortsTableOnly(n, ok) == ~ok /\ n = 0
EnsureAborts(n, ok) == ~ok

CtorEnsureStep ==
  /\ ctorPc = "ensure"
  /\ \E ok \in BOOLEAN :
       /\ backendFailed' = (backendFailed \/ ~ok)
       /\ IF EnsureAborts(stmts, ok)
            THEN /\ ctorPc' = "failed"
                 /\ ctorErr' = "failed to ensure table"
                 /\ stmts' = stmts
            ELSE /\ stmts' = stmts + 1
                 /\ ctorPc' = IF stmts + 1 = 1 + NumIndexes
                                THEN "spawn" ELSE "ensure"
                 /\ ctorErr' = ctorErr
  /\ UNCHANGED <<dbArg, config, bufferSize, flushInterval, wg, pc>>
  /\ UNCHANGED writerVars
  /\ UNCHANGED histVars

\* w.wg.Add(1); go w.flushLoop(); return w, nil
CtorSpawn ==
  /\ ctorPc = "spawn"
  /\ ctorPc' = "returned"
  /\ wg' = wg + 1
  /\ pc' = [pc EXCEPT ![Loop] = "start"]
  /\ UNCHANGED <<ctorErr, dbArg, config, stmts, backendFailed, bufferSize,
                 flushInterval>>
  /\ UNCHANGED writerVars
  /\ UNCHANGED histVars

\* ------------------------------------------------------------------ AddEntry
Running == ctorPc = "returned" /\ ~crashed

CloseCalled == \E c \in Closers : pc[c] # "idle"

\* append(w.buffer, entry) stores the entry in cell len(w.buffer) + 1 of the
\* array behind w.buffer, whatever an earlier use has left in that cell (the
\* array is extended when the cell does not exist yet)
WriteCell(cells, k, e) ==
  IF k <= Len(cells) THEN [cells EXCEPT ![k] = e] ELSE Append(cells, e)

\* w.bufferMux.Lock(); w.buffer = append(w.buffer, entry)
AppendEntry(p) ==
  /\ Running
  /\ pc[p] = "idle"
  /\ nextId <= MaxRecords
  /\ bufferMux = NoOwner
  /\ bufferMux' = p
  /\ nextId' = nextId + 1
  /\ buffer' = Append(buffer, nextId)
  /\ backing' = WriteCell(backing, Len(buffer) + 1, nextId)
  /\ appended' = Append(appended, nextId)
  /\ pc' = [pc EXCEPT ![p] = "ae_check"]
  /\ lateAppend' = (lateAppend \/ CloseCalled)
  /\ UNCHANGED <<ctorVars, job>>
  /\ UNCHANGED <<done, wg, tickPending, batches, dbReleased, closeRet,
                 dbCloseRes, crashed, ticked, flushCalled>>

\* w.AddEntry(entry) is called with a record built by the caller
AddEntryAppend(p) ==
  /\ AppendEntry(p)
  /\ UNCHANGED logVars

\* ---------------------------------------------------------------- flushLocked
\* entries := make([]LogEntry, len(w.buffer)); copy(entries, w.buffer)
DrainedEntriesReversed(buf) == [n \in 1..Len(buf) |-> buf[Len(buf) + 1 - n]]
DrainedEntries(buf) == buf

\* w.buffer = w.buffer[:0]
ResetBufferKeep(buf) == buf
ResetBuffer(buf) == <<>>

\* go w.writeEntries(entries): the batch is persisted by a goroutine of its own
TaskRunnerInline(t) == t
TaskRunner(t) == Goroutine

NewTask(es, t, src) ==
  [entries |-> es, src |-> src, runner |-> TaskRunner(t), st |-> "run",
   calls |-> <<>>, failed |-> FALSE]

\* if len(w.buffer) == 0 { return }
BufferEmptyNever(buf) == FALSE
BufferEmpty(buf) == Len(buf) = 0

flushLocked(t, src) ==
  IF BufferEmpty(buffer)
    THEN UNCHANGED <<buffer, batches>>
    ELSE /\ batches' = Append(batches, NewTask(DrainedEntries(buffer), t, src))
         /\ buffer' = ResetBuffer(buffer)

\* if len(w.buffer) >= w.bufferSize
ThresholdReachedStrict(len, size) == len > size
ThresholdReached(len, size) == len >= size

\* if len(w.buffer) >= w.bufferSize { w.flushLocked() }
AddEntryCheck(p) ==
  /\ ~crashed
  /\ pc[p] = "ae_check"
  /\ IF ThresholdReached(Len(buffer), bufferSize)
       THEN flushLocked(p, "threshold")
       ELSE UNCHANGED <<buffer, batches>>
  /\ pc' = [pc EXCEPT ![p] = "ae_unlock"]
  /\ UNCHANGED <<ctorVars, job, logVars, backing>>
  /\ UNCHANGED histVars
  /\ UNCHANGED <<bufferMux, done, wg, tickPending, dbReleased, closeRet,
                 dbCloseRes, crashed, appended, nextId>>

\* defer w.bufferMux.Unlock(); AddEntry returns
AddEntryUnlock(p) ==
  /\ ~crashed
  /\ pc[p] = "ae_unlock"
  /\ bufferMux' = NoOwner
  /\ pc' = [pc EXCEPT ![p] = "idle"]
  /\ UNCHANGED <<ctorVars, job, logVars, backing>>
  /\ UNCHANGED histVars
  /\ UNCHANGED <<buffer, done, wg, tickPending, batches, dbReleased, closeRet,
                 dbCloseRes, crashed, appended, nextId>>

\* ----------------------------------------------------------------------- Flush
\* Flush: w.bufferMux.Lock(); w.flushLocked()
Flush(t, src) ==
  /\ bufferMux = NoOwner
  /\ bufferMux' = t
  /\ flushLocked(t, src)
  /\ flushCalled' = TRUE

\* the application calls w.Flush()
UserFlush ==
  /\ Running
  /\ pc[User] = "idle"
  /\ Flush(User, "flush")
  /\ pc' = [pc EXCEPT ![User] = "fl_unlock"]
  /\ UNCHANGED <<ctorVars, job, logVars, backing>>
  /\ UNCHANGED <<done, wg, tickPending, dbReleased, closeRet, dbCloseRes,
                 crashed, appended, nextId, ticked, lateAppend>>

\* case <-w.done: w.Flush(); return -- where flushLoop goes after that Flush
AfterFinalFlushSelects(t) == "select"
AfterFinalFlush(t) == "exited"

\* Flush: defer w.bufferMux.Unlock(); Flush returns.  In flushLoop the timer
\* branch goes back to the select, the done branch returns (wg.Done())
FlushUnlock(t) ==
  /\ ~crashed
  /\ pc[t] \in {"fl_unlock", "fd_unlock"}
  /\ bufferMux' = NoOwner
  /\ IF pc[t] = "fd_unlock"
       THEN /\ pc' = [pc EXCEPT ![t] = AfterFinalFlush(t)]
            /\ wg' = wg - 1
       ELSE /\ pc' = [pc EXCEPT ![t] = IF t = Loop THEN "select" ELSE "idle"]
            /\ UNCHANGED wg
  /\ UNCHANGED <<ctorVars, job, logVars, backing>>
  /\ UNCHANGED histVars
  /\ UNCHANGED <<buffer, done, tickPending, batches, dbReleased, closeRet,
                 dbCloseRes, crashed, appended, nextId>>

\* ------------------------------------------------------------------- flushLoop
\* ticker := time.NewTicker(w.flushInterval): panics unless the interval > 0
LoopStart ==
  /\ ~crashed
  /\ pc[Loop] = "start"
  /\ IF flushInterval > 0
       THEN /\ pc' = [pc EXCEPT ![Loop] = "select"]
            /\ UNCHANGED crashed
       ELSE /\ crashed' = TRUE
            /\ UNCHANGED pc
  /\ UNCHANGED <<ctorVars, job, logVars, backing>>
  /\ UNCHANGED histVars
  /\ UNCHANGED <<buffer, bufferMux, done, wg, tickPending, batches,
                 dbReleased, closeRet, dbCloseRes, appended, nextId>>

\* between NewTicker and the deferred ticker.Stop()
TickerNeverFires == FALSE
TickerActive == pc[Loop] \notin {"off", "start", "exited"}

\* the runtime timer puts a tick into ticker.C (capacity 1)
Tick ==
  /\ ~crashed
  /\ TickerActive
  /\ ~tickPending
  /\ tickPending' = TRUE
  /\ ticked' = TRUE
  /\ UNCHANGED <<ctorVars, job, logVars, backing>>
  /\ UNCHANGED <<buffer, bufferMux, done, wg, pc, batches, dbReleased,
                 closeRet, dbCloseRes, crashed, appended, nextId, flushCalled,
                 lateAppend>>

\* select: case <-ticker.C: w.Flush()
LoopSelectTick ==
  /\ ~crashed
  /\ pc[Loop] = "select"
  /\ tickPending
  /\ tickPending' = FALSE
  /\ Flush(Loop, IF done = "closed" THEN "late timer" ELSE "timer")
  /\ pc' = [pc EXCEPT ![Loop] = "fl_unlock"]
  /\ UNCHANGED <<ctorVars, job, logVars, backing>>
  /\ UNCHANGED <<done, wg, dbReleased, closeRet, dbCloseRes, crashed,
                 appended, nextId, ticked, lateAppend>>

\* select: case <-w.done: w.Flush(); return
LoopSelectDone ==
  /\ ~crashed
  /\ pc[Loop] = "select"
  /\ done = "closed"
  /\ Flush(Loop, "final")
  /\ pc' = [pc EXCEPT ![Loop] = "fd_unlock"]
  /\ UNCHANGED <<ctorVars, job, logVars, backing>>
  /\ UNCHANGED <<done, wg, tickPending, dbReleased, closeRet, dbCloseRes,
                 crashed, appended, nextId, ticked, lateAppend>>

\* ---------------------------------------------------------------- writeEntries
\* for _, entry := range entries: the record of the k-th iteration (k >= 1)
EntryIndexReversed(n, k) == n + 1 - k
EntryIndex(n, k) == k

\* _ = w.db.Exec(...): whether an Exec result ends the loop early
BatchAbortsOnError(ok) == ~ok
BatchAborts(ok) == FALSE

\* the one ctx of the batch is passed to the Exec call of every record
CtxFresh(expired) == FALSE
CtxForNextRecord(expired) == expired

\* entries := make([]LogEntry, len(w.buffer)); copy(entries, w.buffer):
\* writeEntries ranges over an array of its own, not over the cells of the
\* array behind w.buffer
ReadEntryFromBuffer(entries, cells, k) == cells[k]
ReadEntry(entries, cells, k) == entries[k]

\* go w.writeEntries(entries): what the goroutine of batch i waits for before
\* it goes on -- nothing, it is not ordered after the batches drained earlier
TaskMayRunInDrainOrder(bs, i) == \A j \in 1..(i - 1) : bs[j].st = "done"
TaskMayRun(bs, i) == TRUE

\* w.db.Exec(ctx, query, ...) is invoked for the next record of batch i
ExecCall(i) ==
  /\ ~crashed
  /\ i \in DOMAIN batches
  /\ batches[i].st = "run"
  /\ TaskMayRun(batches, i)
  /\ Len(batches[i].calls) < Len(batches[i].entries)
  /\ LET b == batches[i]
         k == Len(b.calls) + 1
         r == ReadEntry(b.entries, backing, EntryIndex(Len(b.entries), k))
     IN batches' = [batches EXCEPT ![i] =
                      [b EXCEPT !.calls = Append(b.calls, r), !.st = "inexec"]]
  /\ UNCHANGED <<ctorVars, job, logVars, backing>>
  /\ UNCHANGED histVars
  /\ UNCHANGED <<buffer, bufferMux, done, wg, pc, tickPending, dbReleased,
                 closeRet, dbCloseRes, crashed, appended, nextId>>

\* the Exec call of batch i returns, with or without an error; the error is
\* discarded and the loop goes on to the next record (failed: history of the
\* batch of the final flush, an Exec call of it returned an error)
ExecReturn(i) ==
  /\ ~crashed
  /\ i \in DOMAIN batches
  /\ batches[i].st = "inexec"
  /\ \E ok \in BOOLEAN :
       LET b == batches[i]
           finished == BatchAborts(ok) \/ Len(b.calls) = Len(b.entries)
       IN batches' = [batches EXCEPT
                        ![i].st = IF finished THEN "done" ELSE "run",
                        ![i].failed = @ \/ (b.src = "final" /\ ~ok)]
  /\ UNCHANGED <<ctorVars, job, logVars, backing>>
  /\ UNCHANGED histVars
  /\ UNCHANGED <<buffer, bufferMux, done, wg, pc, tickPending, dbReleased,
                 closeRet, dbCloseRes, crashed, appended, nextId>>

\* ----------------------------------------------------------------------- Close
\* Close is called (a second call may follow the first):
\* close(w.done); closing a closed channel panics
CloseSignal(c) ==
  /\ Running
  /\ pc[c] \in {"idle", "returned"}
  /\ IF done = "closed"
       THEN /\ crashed' = TRUE
            /\ UNCHANGED <<done, pc>>
       ELSE /\ done' = "closed"
            /\ pc' = [pc EXCEPT ![c] = "cl_wait"]
            /\ UNCHANGED crashed
  /\ lateAppend' = (lateAppend \/ \E p \in Producers : pc[p] # "idle")
  /\ UNCHANGED <<ctorVars, job, logVars, backing>>
  /\ UNCHANGED <<buffer, bufferMux, wg, tickPending, batches, dbReleased,
                 closeRet, dbCloseRes, appended, nextId, ticked, flushCalled>>

\* w.wg.Wait() returns when the counter is zero: flushLoop has run its
\* deferred wg.Done()
WaitReturnsAtOnce(n) == TRUE
WaitReturns(n) == n = 0

\* w.wg.Wait()
CloseWait(c) ==
  /\ ~crashed
  /\ pc[c] = "cl_wait"
  /\ WaitReturns(wg)
  /\ pc' = [pc EXCEPT ![c] = "cl_release"]
  /\ UNCHANGED <<ctorVars, job, logVars, backing>>
  /\ UNCHANGED histVars
  /\ UNCHANGED <<buffer, bufferMux, done, wg, tickPending, batches,
                 dbReleased, closeRet, dbCloseRes, crashed, appended, nextId>>

\* return w.db.Close(): what Close returns, given what db.Close() returned
CloseResultSwallowed(err) == "nil"
CloseResult(err) == err

\* return w.db.Close()
CloseRelease(c) ==
  /\ ~crashed
  /\ pc[c] = "cl_release"
  /\ dbReleased' = dbReleased + 1
  /\ \E err \in {"nil", "release failed"} :
       /\ dbCloseRes' = err
       /\ closeRet' = [closeRet EXCEPT ![c] = CloseResult(err)]
  /\ pc' = [pc EXCEPT ![c] = "returned"]
  /\ UNCHANGED <<ctorVars, job, logVars, backing>>
  /\ UNCHANGED histVars
  /\ UNCHANGED <<buffer, bufferMux, done, wg, tickPending, batches, crashed,
                 appended, nextId>>

Next ==
  \/ CtorCheckArgs
  \/ CtorPing
  \/ CtorEnsureStep
  \/ CtorSpawn
  \/ \E p \in Producers : AddEntryAppend(p)
  \/ \E p \in Producers : AddEntryCheck(p)
  \/ \E p \in Producers : AddEntryUnlock(p)
  \/ UserFlush
  \/ \E t \in {User, Loop} : FlushUnlock(t)
  \/ LoopStart
  \/ Tick
  \/ LoopSelectTick
  \/ LoopSelectDone
  \/ \E i \in 1..MaxRecords : ExecCall(i)
  \/ \E i \in 1..MaxRecords : ExecReturn(i)
  \/ \E c \in Closers : CloseSignal(c)
  \/ \E c \in Closers : CloseWait(c)
  \/ \E c \in Closers : CloseRelease(c)

Spec == Init /\ [][Next]_vars

\* ------------------------------------------- writeEntries against a faulty backend
\* One writeEntries run, observed call by call: which records were handed to
\* db.Exec, with what state of the batch context, and what Exec returned.
mainVars == <<ctorPc, ctorErr, dbArg, config, stmts, backendFailed,
              bufferSize, flushInterval, buffer, backing, bufferMux, done, wg,
              pc, tickPending, batches, dbReleased, closeRet, dbCloseRes,
              crashed, appended, nextId, ticked, flushCalled, lateAppend>>

\* a constructed writer whose first drain (by the threshold, or by Flush below
\* the threshold) has taken the n records appended so far and started
\* writeEntries(entries) on them
InitWrite ==
  /\ ctorPc = "returned"
  /\ ctorErr = "nil"
  /\ dbArg = "db"
  /\ config \in {EffectiveConfig(c) : c \in Configs}
  /\ stmts = 1 + NumIndexes
  /\ backendFailed = FALSE
  /\ bufferSize = config.BufferSize
  /\ flushInterval = config.FlushInterval
  /\ buffer = <<>>
  /\ bufferMux = NoOwner
  /\ done = "open"
  /\ wg = 1
  /\ pc = [t \in Threads |-> IF t = Loop THEN "select" ELSE "idle"]
  /\ tickPending = FALSE
  /\ batches = <<>>
  /\ dbReleased = 0
  /\ closeRet = [c \in Closers |-> "none"]
  /\ dbCloseRes = "none"
  /\ crashed = FALSE
  /\ logFields = <<>>
  /\ built = <<>>
  /\ \E n \in 1..MaxBatch :
       /\ n <= bufferSize
       /\ appended = [k \in 1..n |-> k]
       /\ backing = appended
       /\ nextId = n + 1
       /\ job = [entries |-> DrainedEntries(appended), st |-> "run",
                 expired |-> FALSE, calls |-> <<>>]
       /\ flushCalled = (n < bufferSize)
  /\ ticked = FALSE
  /\ lateAppend = FALSE

\* fieldsJSON, _ := json.Marshal(entry.Fields): the bytes handed to Exec as
\* the fields argument; nil when Marshal returned an error
FieldsJSON(encOk) == IF encOk THEN "json" ELSE "nil"

\* fieldsJSON, _ := ...: whether a Marshal error ends the loop over the batch
EncodeErrorEndsBatch(encOk) == ~encOk
EncodeErrorReturns(encOk) == FALSE

\* json.Marshal(entry.Fields) succeeds or fails, then
\* w.db.Exec(ctx, query, ...) is invoked for the next record
WriteCall ==
  /\ job.st = "run"
  /\ \E encOk \in BOOLEAN :
       IF EncodeErrorReturns(encOk)
         THEN job' = [job EXCEPT !.st = "done"]
         ELSE LET k == Len(job.calls) + 1
                  c == [rec |-> job.entries[EntryIndex(Len(job.entries), k)],
                        ctxExpired |-> job.expired, encOk |-> encOk,
                        fields |-> FieldsJSON(encOk), res |-> "pending"]
              IN job' = [job EXCEPT !.calls = Append(job.calls, c),
                                    !.st = "inexec"]
  /\ UNCHANGED <<mainVars, logVars>>

\* the Exec call returns nil or an error: _ = w.db.Exec(...)
WriteReturn ==
  /\ job.st = "inexec"
  /\ \E ok \in BOOLEAN :
       LET k == Len(job.calls)
           finished == BatchAborts(ok) \/ k = Len(job.entries)
       IN job' = [job EXCEPT !.calls[k].res = IF ok THEN "ok" ELSE "err",
                             !.expired = CtxForNextRecord(job.expired),
                             !.st = IF finished THEN "done" ELSE "run"]
  /\ UNCHANGED <<mainVars, logVars>>

\* context.WithTimeout(context.Background(), 30*time.Second): the deadline
\* passes while writeEntries runs
WriteExpire ==
  /\ job.st \in {"run", "inexec"}
  /\ ~job.expired
  /\ job' = [job EXCEPT !.expired = TRUE]
  /\ UNCHANGED <<mainVars, logVars>>

NextWrite ==
  \/ WriteCall
  \/ WriteReturn
  \/ WriteExpire

SpecWrite == InitWrite /\ [][NextWrite]_vars

\* -------------------------------------------- configurations with unset fields
\* &PostgresConfig{...} with BufferSize or FlushInterval (or both) left at the
\* zero value of its type
ZeroFieldConfigs ==
  {[isNil |-> FALSE, BufferSize |-> 0, FlushInterval |-> SmallFlushInterval],
   [isNil |-> FALSE, BufferSize |-> SmallBufferSize, FlushInterval |-> 0],
   [isNil |-> FALSE, BufferSize |-> 0, FlushInterval |-> 0]}

\* NewPostgresqlWriter(db, config) is called with such a configuration
InitCfg ==
  /\ ctorPc = "start"
  /\ ctorErr = "nil"
  /\ dbArg \in {"nil", "db"}
  /\ config \in ZeroFieldConfigs
  /\ stmts = 0
  /\ backendFailed = FALSE
  /\ bufferSize = 0
  /\ flushInterval = 0
  /\ buffer = <<>>
  /\ backing = <<>>
  /\ bufferMux = NoOwner
  /\ done = "open"
  /\ wg = 0
  /\ pc = [t \in Threads |-> IF t = Loop THEN "off" ELSE "idle"]
  /\ tickPending = FALSE
  /\ batches = <<>>
  /\ dbReleased = 0
  /\ closeRet = [c \in Closers |-> "none"]
  /\ dbCloseRes = "none"
  /\ crashed = FALSE
  /\ logFields = <<>>
  /\ built = <<>>
  /\ job = NoJob
  /\ appended = <<>>
  /\ nextId = 1
  /\ ticked = FALSE
  /\ flushCalled = FALSE
  /\ lateAppend = FALSE

SpecCfg == InitCfg /\ [][Next]_vars

\* ------------------------------------------------------- Log: building a record
\* A 64-bit quantity is held as four 16-bit limbs, most significant first; a
\* number is a sign and a magnitude.
Limb == 65536
Zero == <<0, 0, 0, 0>>
Small(n) == <<0, 0, 0, n>>
MaxInt64Mag == <<32767, 65535, 65535, 65535>>    \* 2^63 - 1
MinInt64Mag == <<32768, 0, 0, 0>>                \* 2^63
MaxUint64Mag == <<65535, 65535, 65535, 65535>>   \* 2^64 - 1

\* m + 1 modulo 2^64
Inc(m) ==
  LET s4 == m[4] + 1
      s3 == m[3] + (s4 \div Limb)
      s2 == m[2] + (s3 \div Limb)
      s1 == m[1] + (s2 \div Limb)
  IN <<s1 % Limb, s2 % Limb, s3 % Limb, s4 % Limb>>

\* 2^64 - m, for m > 0
TwoCompl(m) == Inc([i \in 1..4 |-> (Limb - 1) - m[i]])

\* quotient and remainder of m by 10
DivMod10(m) ==
  LET c1 == m[1]
      c2 == (c1 % 10) * Limb + m[2]
      c3 == (c2 % 10) * Limb + m[3]
      c4 == (c3 % 10) * Limb + m[4]
  IN [q |-> <<c1 \div 10, c2 \div 10, c3 \div 10, c4 \div 10>>, r |-> c4 % 10]

Digit(d) == <<"0", "1", "2", "3", "4", "5", "6", "7", "8", "9">>[d + 1]

RECURSIVE Digits(_)
Digits(m) ==
  IF m = Zero THEN ""
  ELSE LET d == DivMod10(m) IN Digits(d.q) \o Digit(d.r)

Decimal(m) == IF m = Zero THEN "0" ELSE Digits(m)

\* values of type any that a LogField can carry
IntKinds == {"int", "int8", "int16", "int32", "int64"}
UintKinds == {"uint", "uint8", "uint16", "uint32", "uint64"}
FloatKinds == {"float32", "float64"}

Str(s) == [kind |-> "string", s |-> s, neg |-> FALSE, mag |-> Zero, frac |-> ""]
Num(kind, neg, mag) ==
  [kind |-> kind, s |-> "", neg |-> neg, mag |-> mag, frac |-> ""]
\* the float  (-)mag.frac ; frac = "" for a whole number
Flt(kind, neg, mag, frac) ==
  [kind |-> kind, s |-> "", neg |-> neg, mag |-> mag, frac |-> frac]

\* fmt.Sprintf("%v", v)
Sprintf(v) ==
  IF v.kind = "string" THEN v.s
  ELSE (IF v.neg THEN "-" ELSE "") \o Decimal(v.mag)
       \o (IF v.frac = "" THEN "" ELSE "." \o v.frac)

\* FormatContent(v): a string is taken as it is, anything else goes through %v
FormatContent(v) == IF v.kind = "string" THEN v.s ELSE Sprintf(v)

\* int64(val) for a uint64 (and a 64-bit uint): the same 64 bits read as a
\* two's-complement number
Uint64ToInt64(mag) ==
  IF mag[1] >= Limb \div 2
    THEN [neg |-> TRUE, mag |-> TwoCompl(mag)]
    ELSE [neg |-> FALSE, mag |-> mag]

\* int64(val) for a float within the int64 range: the fraction is dropped
FloatToInt64(v) == [neg |-> v.neg /\ v.mag # Zero, mag |-> v.mag]

\* toInt64(v): (int64, bool)
toInt64(v) ==
  CASE v.kind \in {"int", "int32", "int64"} ->
         [id |-> [neg |-> v.neg, mag |-> v.mag], ok |-> TRUE]
    [] v.kind \in {"uint", "uint64"} ->
         [id |-> Uint64ToInt64(v.mag), ok |-> TRUE]
    [] v.kind = "uint32" ->
         [id |-> [neg |-> FALSE, mag |-> v.mag], ok |-> TRUE]
    [] v.kind \in FloatKinds ->
         [id |-> FloatToInt64(v), ok |-> TRUE]
    [] OTHER ->
         [id |-> [neg |-> FALSE, mag |-> Zero], ok |-> FALSE]

\* what extractFields returns before it has looked at any field
NoFields ==
  [trace |-> "", span |-> "", duration |-> "", logType |-> "", userID |-> <<>>]

\* trace = value (and its like): the assignment made at every matching field
AssignIfUnset(old, value) == IF old = "" THEN value ELSE old
Assign(old, value) == value

\* one iteration of the loop of extractFields
ExtractField(acc, field) ==
  LET value == Sprintf(field.Value)
  IN CASE field.Key = "trace" -> [acc EXCEPT !.trace = Assign(@, value)]
       [] field.Key = "span" -> [acc EXCEPT !.span = Assign(@, value)]
       [] field.Key = "duration" -> [acc EXCEPT !.duration = Assign(@, value)]
       [] field.Key \in {"log_type", "logType"} ->
            [acc EXCEPT !.logType = Assign(@, value)]
       [] field.Key \in {"user_id", "userId"} ->
            LET r == toInt64(field.Value)
            IN IF r.ok THEN [acc EXCEPT !.userID = <<r.id>>] ELSE acc
       [] OTHER -> acc

RECURSIVE ExtractLoop(_, _)
ExtractLoop(fields, n) ==
  IF n = 0 THEN NoFields
  ELSE ExtractField(ExtractLoop(fields, n - 1), fields[n])

extractFields(fields) == ExtractLoop(fields, Len(fields))

\* the keys convertLogFields skips
IsSpecialKeyNoVariants(key) ==
  key \in {"trace", "span", "duration", "log_type", "user_id"}
IsSpecialKey(key) ==
  key \in {"trace", "span", "duration", "log_type", "logType", "user_id",
           "userId"}

\* convertLogFields(fields): nil, or the map of the fields it does not skip,
\* a later field overwriting an earlier one of the same key
NilMap == [isNil |-> TRUE, m |-> <<>>]
convertLogFields(fields) ==
  LET keys == {fields[i].Key : i \in {j \in DOMAIN fields :
                                        ~IsSpecialKey(fields[j].Key)}}
      last(k) == CHOOSE i \in DOMAIN fields :
                   /\ fields[i].Key = k
                   /\ \A j \in DOMAIN fields : fields[j].Key = k => j <= i
  IN IF Len(fields) = 0 \/ keys = {}
       THEN NilMap
       ELSE [isNil |-> FALSE, m |-> [k \in keys |-> fields[last(k)].Value]]

\* entry := LogEntry{...} (Timestamp, the clock reading, is left out)
NewLogEntry(level, content, fields) ==
  LET x == extractFields(fields)
  IN [Level |-> level, Content |-> FormatContent(content),
      LogType |-> x.logType, Duration |-> x.duration, Trace |-> x.trace,
      Span |-> x.span, UserID |-> x.userID, Fields |-> convertLogFields(fields)]

\* ---- the Log calls examined
TextKeys == {"trace", "span", "duration", "log_type", "logType"}
UserIDKeys == {"user_id", "userId"}
OtherKeys == {"caller", "ip"}

TextValues == {Str("a"), Num("int", FALSE, Small(50))}

UserIDValues ==
  {Num("int", FALSE, Small(12345)), Num("int", TRUE, Small(7)),
   Num("int8", FALSE, Small(5)), Num("int16", FALSE, Small(5)),
   Num("int32", TRUE, Small(3)), Num("int64", TRUE, MinInt64Mag),
   Num("uint", FALSE, MinInt64Mag), Num("uint8", FALSE, Small(200)),
   Num("uint16", FALSE, Small(65535)), Num("uint32", FALSE, <<0, 0, 65535, 65535>>),
   Num("uint64", FALSE, MaxInt64Mag), Num("uint64", FALSE, MinInt64Mag),
   Num("uint64", FALSE, MaxUint64Mag),
   Flt("float32", FALSE, Small(2), "5"), Flt("float64", TRUE, Small(3), "7"),
   Str("abc")}

LogFields ==
  {[Key |-> k, Value |-> v] : k \in TextKeys \cup OtherKeys, v \in TextValues}
  \cup {[Key |-> k, Value |-> v] : k \in UserIDKeys, v \in UserIDValues}

FieldLists == UNION {[1..n -> LogFields] : n \in 0..MaxFields}

\* a constructed, idle writer and the arguments of one Log call
InitLog ==
  /\ ctorPc = "returned"
  /\ ctorErr = "nil"
  /\ dbArg = "db"
  /\ config = [isNil |-> FALSE, BufferSize |-> SmallBufferSize,
               FlushInterval |-> SmallFlushInterval]
  /\ stmts = 1 + NumIndexes
  /\ backendFailed = FALSE
  /\ bufferSize = config.BufferSize
  /\ flushInterval = config.FlushInterval
  /\ buffer = <<>>
  /\ backing = <<>>
  /\ bufferMux = NoOwner
  /\ done = "open"
  /\ wg = 1
  /\ pc = [t \in Threads |-> IF t = Loop THEN "select" ELSE "idle"]
  /\ tickPending = FALSE
  /\ batches = <<>>
  /\ dbReleased = 0
  /\ closeRet = [c \in Closers |-> "none"]
  /\ dbCloseRes = "none"
  /\ crashed = FALSE
  /\ job = NoJob
  /\ logFields \in FieldLists
  /\ built = <<>>
  /\ appended = <<>>
  /\ nextId = 1
  /\ ticked = FALSE
  /\ flushCalled = FALSE
  /\ lateAppend = FALSE

\* w.Log(level, content, fields...): the record is built and handed to AddEntry
Log(p) ==
  /\ built = <<>>
  /\ built' = <<NewLogEntry("info", Str("msg"), logFields)>>
  /\ UNCHANGED logFields
  /\ AppendEntry(p)

NextLog ==
  \/ \E p \in Producers : Log(p)
  \/ \E p \in Producers : AddEntryCheck(p)
  \/ \E p \in Producers : AddEntryUnlock(p)

SpecLog == InitLog /\ [][NextLog]_vars

\* ------------------------------------------------- a writer left to its timer
\* The writer is constructed and used by producers only: nobody calls Flush
\* or Close, so a record leaves the buffer through the threshold flush of
\* AddEntry or through the timer branch of flushLoop.  (The writeEntries
\* goroutines are left out: they touch neither the buffer nor its lock.)
NextLive ==
  \/ CtorCheckArgs
  \/ CtorPing
  \/ CtorEnsureStep
  \/ CtorSpawn
  \/ \E p \in Producers : AddEntryAppend(p)
  \/ \E p \in Producers : AddEntryCheck(p)
  \/ \E p \in Producers : AddEntryUnlock(p)
  \/ FlushUnlock(Loop)
  \/ LoopStart
  \/ Tick
  \/ LoopSelectTick

\* The runtime timer keeps firing; the flushLoop goroutine is scheduled, and
\* its Lock() is granted when the mutex is free again and again (sync.Mutex
\* does not starve a waiter); an AddEntry call that holds the lock runs on to
\* its deferred Unlock.
FairLive ==
  /\ WF_vars(Tick)
  /\ WF_vars(LoopStart)
  /\ SF_vars(LoopSelectTick)
  /\ WF_vars(FlushUnlock(Loop))
  /\ \A p \in Producers : WF_vars(AddEntryCheck(p))
  /\ \A p \in Producers : WF_vars(AddEntryUnlock(p))

SpecLive == Init /\ [][NextLive]_vars /\ FairLive

\* ====================================================================== claims
BatchIds == DOMAIN batches

\* the backend has received an Exec call for record r
ExecReceived(r) ==
  \E i \in BatchIds : \E k \in DOMAIN batches[i].calls :
    batches[i].calls[k] = r

\* position of record r in the append order
Pos(r) == CHOOSE n \in DOMAIN appended : appended[n] = r

Count(seq, r) == Cardinality({n \in DOMAIN seq : seq[n] = r})

SumCounts[i \in 0..MaxRecords + 1, r \in 1..MaxRecords + 1] ==
  IF i = 0 \/ i > Len(batches) THEN 0
  ELSE Count(batches[i].entries, r) + SumCounts[i - 1, r]

\* number of drained batches that hold record r
DrainedCount(r) == SumCounts[Len(batches), r]

\* C1: when Close has returned and no AddEntry call overlapped or followed
\* the Close call, the backend has received an Exec call for every record
\* that was appended.
C1_NoLossOnClose ==
  \A c \in Closers :
    (pc[c] = "returned" /\ ~lateAppend) =>
      \A n \in DOMAIN appended : ExecReceived(appended[n])

\* C2: once the backend has been released (db.Close was invoked), every Exec
\* call of the batch drained by the final flush has returned: that batch's
\* writeEntries has finished.
C2_FinalPersistAwaited ==
  dbReleased > 0 =>
    \A i \in BatchIds : batches[i].src = "final" => batches[i].st = "done"

\* C3: every record whose append has completed is either still in the buffer
\* or in exactly one drained batch, never in two places and never in none.
C3_NoDoubleDrainNoDrop ==
  \A n \in DOMAIN appended :
    /\ Count(appended, appended[n]) = 1
    /\ Count(buffer, appended[n]) + DrainedCount(appended[n]) = 1

C3_Witness ==
  /\ \E i \in BatchIds : batches[i].src = "threshold"
  /\ \E i \in BatchIds : batches[i].src \in {"timer", "flush"}
  /\ \E p \in Producers : bufferMux = p /\ pc[p] = "ae_unlock"
  /\ \E p \in Producers : pc[p] = "idle"

\* C4: with no timer tick and no Flush call, fewer than threshold appends
\* cause no drain, and the threshold-th append causes exactly one drain,
\* which has happened once the appending call is past its threshold check,
\* that is before it releases the buffer lock.
C4_ThresholdTrigger ==
  (~ticked /\ ~flushCalled /\ bufferSize > 0) =>
    /\ Len(appended) < bufferSize => batches = <<>>
    /\ Len(appended) = bufferSize =>
         /\ Len(batches) <= 1
         /\ (\A p \in Producers : pc[p] # "ae_check") => Len(batches) = 1

C4_Witness ==
  /\ ~ticked
  /\ ~flushCalled
  /\ bufferSize > 0
  /\ Len(appended) = bufferSize
  /\ \E p \in Producers : pc[p] = "ae_unlock" /\ bufferMux = p
  /\ Len(batches) = 1

\* the last n records appended, in append order
LastAppended(n) == SubSeq(appended, Len(appended) - n + 1, Len(appended))

\* C5: when an AddEntry call is past its threshold check and about to return,
\* either its append did not reach the threshold (the buffer is non-empty and
\* below the threshold), or the buffer is empty and the newest batch is
\* exactly the threshold-many records appended last, in append order.
C5_ThresholdBatchInOrder ==
  \A p \in Producers :
    (pc[p] = "ae_unlock" /\ bufferSize > 0) =>
      \/ /\ buffer # <<>>
         /\ Len(buffer) < bufferSize
      \/ /\ buffer = <<>>
         /\ batches # <<>>
         /\ batches[Len(batches)].src = "threshold"
         /\ Len(batches[Len(batches)].entries) = bufferSize
         /\ batches[Len(batches)].entries = LastAppended(bufferSize)

C5_Witness ==
  \E p \in Producers :
    /\ pc[p] = "ae_unlock"
    /\ buffer = <<>>
    /\ Len(batches) = 2
    /\ batches[2].src = "threshold"
    /\ Len(batches[2].entries) >= 2
    /\ batches[2].entries = LastAppended(bufferSize)

\* C6: the Exec calls issued for a batch are in the order in which the
\* batch's records were appended to the buffer.
C6_BatchOrderPreserved ==
  \A i \in BatchIds :
    \A j, k \in DOMAIN batches[i].calls :
      j < k => Pos(batches[i].calls[j]) < Pos(batches[i].calls[k])

C6_Witness ==
  \E i \in BatchIds :
    /\ batches[i].st = "done"
    /\ Len(batches[i].calls) >= 2

\* C7: no Exec call of a log record is in progress in a thread that holds
\* bufferMux, and a thread that holds bufferMux is never the one that runs
\* writeEntries.
C7_LockNotHeldAcrossExec ==
  \A i \in BatchIds :
    /\ batches[i].runner \notin Threads
    /\ batches[i].st = "inexec" => batches[i].runner # bufferMux

C7_Witness ==
  /\ \E i \in BatchIds : batches[i].st = "inexec"
  /\ \E p \in Producers : bufferMux = p /\ pc[p] = "ae_check"

\* C8 (SpecWrite): a finished writeEntries has issued an Exec call for every
\* record of its batch whatever Exec calls failed, and a failed call reaches
\* no caller: the process goes on, no Close result and no constructor result
\* is changed by it.
C8_FailureDoesNotAbortBatch ==
  /\ job.st = "done" =>
       /\ Len(job.calls) = Len(job.entries)
       /\ \A k \in DOMAIN job.entries : job.calls[k].rec = job.entries[k]
  /\ (\E k \in DOMAIN job.calls : job.calls[k].res = "err") =>
       /\ ~crashed
       /\ ctorErr = "nil"
       /\ \A c \in Closers : closeRet[c] = "none"

C8_Witness ==
  /\ job.st = "done"
  /\ Len(job.calls) >= 3
  /\ job.calls[1].res = "err"
  /\ job.calls[2].res = "ok"
  /\ job.calls[3].res = "err"

\* C9 as stated (SpecWrite): no Exec call is issued for a record of a batch
\* once the batch's timeout has expired.
C9_AbandonedAfterTimeout ==
  \A k \in DOMAIN job.calls : ~job.calls[k].ctxExpired

\* C9 amended (SpecWrite): one timeout context is shared by the whole batch,
\* so once it has expired it stays expired and every later call of the batch
\* carries the expired context, and writeEntries still issues an Exec call
\* for every remaining record.
C9_SharedTimeoutStillAttempted ==
  /\ \A j, k \in DOMAIN job.calls :
       (j < k /\ job.calls[j].ctxExpired) => job.calls[k].ctxExpired
  /\ \A k \in DOMAIN job.calls :
       (job.calls[k].ctxExpired /\ job.calls[k].res # "pending") => job.expired
  /\ (job.st = "done" /\ job.expired) => Len(job.calls) = Len(job.entries)

C9_Witness ==
  /\ job.st = "done"
  /\ Len(job.calls) >= 3
  /\ ~job.calls[1].ctxExpired
  /\ job.calls[2].ctxExpired
  /\ job.calls[3].ctxExpired

\* C10: when Ping or a provisioning statement failed, NewPostgresqlWriter has
\* returned an error and no writer and flushLoop was never started; flushLoop
\* is started only after Ping and every provisioning statement succeeded.
C10_ConstructionFatal ==
  /\ backendFailed =>
       /\ ctorPc = "failed"
       /\ ctorErr # "nil"
       /\ pc[Loop] = "off"
       /\ wg = 0
  /\ ctorPc = "failed" => (ctorErr # "nil" /\ pc[Loop] = "off" /\ wg = 0)
  /\ pc[Loop] # "off" =>
       /\ ~backendFailed
       /\ stmts = 1 + NumIndexes
       /\ ctorPc = "returned"
       /\ ctorErr = "nil"

C10_Witness ==
  /\ backendFailed
  /\ ctorPc = "failed"
  /\ stmts >= 1

\* C11: what Close returns to its caller is exactly what db.Close() returned,
\* an error if and only if the release failed, whatever the Exec calls of the
\* final flush returned; and in both cases the release comes after flushLoop
\* has made its final drain and exited.
C11_CloseReturnsReleaseResult ==
  /\ \A c \in Closers :
       /\ pc[c] = "returned" => closeRet[c] = dbCloseRes
       /\ pc[c] # "returned" => closeRet[c] = "none"
  /\ dbReleased > 0 =>
       /\ pc[Loop] = "exited"
       /\ dbCloseRes \in {"nil", "release failed"}
       /\ buffer # <<>> => lateAppend

\* the release failed, and was reported, after a final flush whose Exec calls
\* succeeded
C11_WitnessReleaseFailed ==
  /\ \E c \in Closers : pc[c] = "returned" /\ closeRet[c] = "release failed"
  /\ \E i \in BatchIds :
       batches[i].src = "final" /\ batches[i].st = "done" /\ ~batches[i].failed

\* the release succeeded, and Close returned nil, although an Exec call of the
\* final flush failed
C11_Witness ==
  /\ \E c \in Closers : pc[c] = "returned" /\ closeRet[c] = "nil"
  /\ \E i \in BatchIds :
       /\ batches[i].src = "final"
       /\ batches[i].st = "done"
       /\ batches[i].failed

\* C12: a drain of an empty buffer starts no writeEntries and so causes no
\* Exec call: every batch handed to writeEntries is non-empty, and while no
\* record was ever appended there is no batch at all.  Close on such a writer
\* still closes done, lets flushLoop exit, and once it has returned the
\* backend has been released exactly once.
C12_CloseOnEmptyBuffer ==
  /\ \A i \in BatchIds : batches[i].entries # <<>>
  /\ appended = <<>> => (batches = <<>> /\ buffer = <<>>)
  /\ \A c \in Closers :
       pc[c] = "returned" =>
         /\ done = "closed"
         /\ pc[Loop] = "exited"
         /\ wg = 0
         /\ dbReleased = 1

C12_Witness ==
  /\ appended = <<>>
  /\ flushCalled
  /\ batches = <<>>
  /\ \E c \in Closers : pc[c] = "returned"
  /\ pc[Loop] = "exited"
  /\ dbReleased = 1
  /\ ~crashed

\* the batches drained by flushLoop itself
LoopSources == {"timer", "late timer", "final"}

\* C13 as stated: once done is closed, flushLoop starts no timer-triggered
\* Flush any more, even when a tick is pending in ticker.C at that moment.
C13_NoTimerFlushAfterSignal ==
  [][(done = "closed" /\ pc[Loop] = "select") => pc'[Loop] # "fl_unlock"]_vars

\* C13 amended: once done is closed flushLoop may still take a tick that is
\* pending in ticker.C and start a timer-triggered Flush (select chooses among
\* its ready cases), but it starts the final Flush once only, only after done
\* was closed, and starts no Flush after it: at most one batch comes from the
\* final Flush and no batch drained by flushLoop follows it.
C13_SingleFinalFlushIsLast ==
  /\ pc[Loop] \in {"fd_unlock", "exited"} => done = "closed"
  /\ \A i \in BatchIds :
       /\ batches[i].src = "late timer" => done = "closed"
       /\ batches[i].src = "final" =>
            /\ done = "closed"
            /\ pc[Loop] \in {"fd_unlock", "exited"}
            /\ \A j \in BatchIds :
                 (j > i) => batches[j].src \notin LoopSources

C13_Witness ==
  /\ pc[Loop] = "exited"
  /\ \E i, j \in BatchIds :
       /\ i < j
       /\ batches[i].src = "late timer"
       /\ batches[j].src = "final"

\* C14 as stated: Close may be called again on a writer whose Close has
\* returned (directly and through a MultiWriter that holds the writer): done
\* is then closed once, the backend has been released once, and the process
\* has not died of a panic.
C14_CloseIdempotent ==
  (\E c \in Closers : pc[c] = "returned") =>
    /\ done = "closed"
    /\ dbReleased = 1
    /\ ~crashed

\* C15 as stated: once Close has returned, an AddEntry call adds no record to
\* w.buffer, and no batch is handed to writeEntries (so no Exec call reaches
\* the released backend on behalf of such a call).
C15_ClosedRejectsAppend ==
  [][(\E c \in Closers : pc[c] = "returned") =>
       /\ appended' = appended
       /\ \A i \in DOMAIN batches' :
            i > Len(batches) => batches'[i].src # "threshold"]_vars

\* C16 as stated (SpecCfg): a writer that NewPostgresqlWriter has returned
\* has bufferSize > 0 and flushInterval > 0, the defaults 100 and 5s standing
\* in for a configuration field left at zero.
C16_PositiveThresholdAndInterval ==
  ctorPc = "returned" =>
    /\ bufferSize > 0
    /\ flushInterval > 0
    /\ (config.BufferSize = 0 => bufferSize = DefaultBufferSize)
    /\ (config.FlushInterval = 0 => flushInterval = DefaultFlushInterval)

\* ---- claims about the record Log builds (SpecLog)
WellKnownKeys == TextKeys \cup UserIDKeys

\* positions of the fields of the Log call whose key is one of keys
Occurrences(keys) == {i \in DOMAIN logFields : logFields[i].Key \in keys}
FirstOf(S) == CHOOSE i \in S : \A j \in S : i <= j
LastOf(S) == CHOOSE i \in S : \A j \in S : j <= i

\* C17 (SpecLog): no well-known key is a key of the built record's Fields,
\* every other key of the Log call is one, and Fields is nil exactly when the
\* call has no other key.
C17_SpecialKeysNeverInFields ==
  built # <<>> =>
    LET F == built[1].Fields
        others == {logFields[i].Key : i \in DOMAIN logFields} \ WellKnownKeys
    IN /\ DOMAIN F.m \cap WellKnownKeys = {}
       /\ \A k \in others : k \in DOMAIN F.m
       /\ DOMAIN F.m \subseteq others
       /\ F.isNil <=> others = {}

C17_Witness ==
  /\ built # <<>>
  /\ ~built[1].Fields.isNil
  /\ \E i, j \in DOMAIN logFields :
       /\ logFields[i].Key = "logType"
       /\ logFields[j].Key \in OtherKeys
  /\ \E p \in Producers : pc[p] = "ae_unlock"

\* the keys that feed each string field of the record
KeysOfField ==
  [Trace |-> {"trace"}, Span |-> {"span"}, Duration |-> {"duration"},
   LogType |-> {"log_type", "logType"}]

\* C18 as stated (SpecLog): when a well-known key (or its naming variant)
\* occurs more than once, the field of the record holds the value of the
\* first occurrence.
C18_FirstMatchWins ==
  built # <<>> =>
    /\ \A f \in DOMAIN KeysOfField :
         LET S == Occurrences(KeysOfField[f])
         IN S # {} => built[1][f] = Sprintf(logFields[FirstOf(S)].Value)
    /\ LET S == Occurrences(UserIDKeys)
       IN (S # {} /\ toInt64(logFields[FirstOf(S)].Value).ok) =>
            built[1].UserID = <<toInt64(logFields[FirstOf(S)].Value).id>>

\* C18 amended (SpecLog): when a well-known key (or its naming variant) occurs
\* more than once, the field of the record holds the value of the last
\* occurrence; UserID holds the value of the last occurrence whose value
\* toInt64 converts, and is nil when there is none.
C18_LastMatchWins ==
  built # <<>> =>
    /\ \A f \in DOMAIN KeysOfField :
         LET S == Occurrences(KeysOfField[f])
         IN built[1][f] = IF S = {} THEN ""
                          ELSE Sprintf(logFields[LastOf(S)].Value)
    /\ LET S == {i \in Occurrences(UserIDKeys) : toInt64(logFields[i].Value).ok}
       IN built[1].UserID = IF S = {} THEN <<>>
                            ELSE <<toInt64(logFields[LastOf(S)].Value).id>>

C18_Witness ==
  /\ built # <<>>
  /\ Len(logFields) >= 2
  /\ logFields[1].Key = "log_type"
  /\ logFields[2].Key = "logType"
  /\ logFields[1].Value = Str("a")
  /\ logFields[2].Value # Str("a")
  /\ built[1].LogType = "50"

\* C19 as stated (SpecLog): UserID is set exactly when the Log call has a
\* user_id / userId field whose value is an integer of any width, signed or
\* unsigned, or a float; with a non-numeric value it stays nil, and the record
\* is built and appended to the buffer all the same.
C19_AnyNumericUserIDAccepted ==
  built # <<>> =>
    /\ built[1].UserID # <<>> <=>
         \E i \in Occurrences(UserIDKeys) :
           logFields[i].Value.kind \in IntKinds \cup UintKinds \cup FloatKinds
    /\ appended = <<1>>

\* C20 as stated (SpecLog): a uint64 user id u is stored as the int64 that is
\* numerically equal to u, never as a negative number.
C20_Uint64UserIDKeepsValue ==
  built # <<>> =>
    \A i \in Occurrences(UserIDKeys) :
      (Occurrences(UserIDKeys) = {i} /\ logFields[i].Value.kind = "uint64") =>
        built[1].UserID = <<[neg |-> FALSE, mag |-> logFields[i].Value.mag]>>

\* C21: every batch is persisted by a goroutine of its own, which can issue
\* its next Exec call whatever the goroutines of the batches drained earlier
\* have done so far; hence (C21_Witness) a batch drained later can have all
\* its Exec calls completed while a batch drained before it has none.
C21_BatchesPersistIndependently ==
  \A i \in BatchIds :
    (~crashed /\ batches[i].st = "run") => ENABLED ExecCall(i)

C21_Witness ==
  \E i, j \in BatchIds :
    /\ i < j
    /\ batches[i].calls = <<>>
    /\ batches[j].st = "done"
    /\ Len(batches[j].calls) = Len(batches[j].entries)

\* C22 (SpecWrite): when json.Marshal of a record's Fields fails, the Exec
\* call for that record is issued all the same, with a nil fields argument,
\* and writeEntries goes on: a finished run has issued one Exec call for
\* every record of the batch, in order.
C22_EncodeFailureKeepsRecord ==
  /\ \A k \in DOMAIN job.calls :
       /\ job.calls[k].rec = job.entries[k]
       /\ ~job.calls[k].encOk => job.calls[k].fields = "nil"
       /\ job.calls[k].encOk => job.calls[k].fields = "json"
  /\ job.st = "done" => Len(job.calls) = Len(job.entries)

C22_Witness ==
  /\ job.st = "done"
  /\ Len(job.calls) >= 3
  /\ ~job.calls[1].encOk
  /\ job.calls[1].fields = "nil"
  /\ job.calls[2].encOk
  /\ job.calls[3].res # "pending"

\* record r is in w.buffer / has been handed to a writeEntries goroutine
InBuffer(r) == \E k \in DOMAIN buffer : buffer[k] = r
Drained(r) ==
  \E i \in BatchIds : \E k \in DOMAIN batches[i].entries :
    batches[i].entries[k] = r

\* C23 (SpecLive): with the timer firing and flushLoop scheduled, and nobody
\* calling Flush or Close, every record appended to the buffer is eventually
\* drained into a batch handed to writeEntries, whether or not the threshold
\* is ever reached.
C23_TimerDrainsEventually ==
  \A r \in 1..MaxRecords : InBuffer(r) ~> Drained(r)

C23_Witness ==
  /\ done = "open"
  /\ bufferSize = DefaultBufferSize
  /\ Len(appended) = MaxRecords
  /\ buffer = <<>>
  /\ \A i \in BatchIds : batches[i].src = "timer"
  /\ \A r \in 1..MaxRecords : Drained(r)

RECURSIVE DrainedUpTo(_)
\* the records of the first n batches, in drain order
DrainedUpTo(n) ==
  IF n = 0 THEN <<>> ELSE DrainedUpTo(n - 1) \o batches[n].entries

\* C24: a batch is a snapshot of its own.  The batches in drain order followed
\* by the buffer are exactly the records in append order, so each batch holds
\* what the buffer held when it was drained; w.buffer is the first cells of
\* its array; and every Exec call of a batch is for the record of that batch
\* at that position, whatever AddEntry has since written into the cells the
\* drain left behind.
C24_BatchIsIndependentSnapshot ==
  /\ DrainedUpTo(Len(batches)) \o buffer = appended
  /\ Len(buffer) <= Len(backing)
  /\ buffer = SubSeq(backing, 1, Len(buffer))
  /\ \A i \in BatchIds :
       \A k \in DOMAIN batches[i].calls :
         batches[i].calls[k] = batches[i].entries[k]

\* a batch of two records is half persisted while a later AddEntry has put
\* another record into the first cell
C24_Witness ==
  \E i \in BatchIds :
    /\ Len(batches[i].entries) = 2
    /\ batches[i].st \in {"run", "inexec"}
    /\ batches[i].calls = <<batches[i].entries[1]>>
    /\ backing[1] # batches[i].entries[1]
    /\ buffer # <<>>

\* C25: for a writer with bufferSize > 0, the buffer is shorter than
\* bufferSize whenever bufferMux is free, and never longer than bufferSize
\* while it is held.
C25_BufferBound ==
  bufferSize > 0 =>
    /\ Len(buffer) <= bufferSize
    /\ bufferMux = NoOwner => Len(buffer) < bufferSize

C25_Witness ==
  /\ bufferSize = SmallBufferSize
  /\ Len(buffer) = bufferSize
  /\ \E p \in Producers : bufferMux = p /\ pc[p] = "ae_check"
  /\ \E i \in BatchIds : batches[i].src \in {"timer", "flush"}

\* C26: when Close is about to call db.Close(), and ever after, done is
\* closed and flushLoop has made its final Flush, released the lock and
\* returned, for good; and unless an AddEntry call overlapped or followed the
\* Close call, the buffer is empty then.
C26_ReleaseAfterLoopExit ==
  ((\E c \in Closers : pc[c] = "cl_release") \/ dbReleased > 0) =>
    /\ done = "closed"
    /\ pc[Loop] = "exited"
    /\ bufferMux # Loop
    /\ wg = 0
    /\ ~lateAppend => buffer = <<>>

C26_Witness ==
  /\ \E c \in Closers : pc[c] = "cl_release"
  /\ dbReleased = 0
  /\ ~lateAppend
  /\ Len(appended) = MaxRecords
  /\ buffer = <<>>
  /\ \E i \in BatchIds : batches[i].src = "final"

====
